---- MODULE Spec2Model ----
(***************************************************************************)
(* The session engine of cli.py (ChatTerminalApp): the mode state machine, *)
(* the submission dispatcher, the chat and agent streaming tasks and the   *)
(* shell handler, on the single asyncio scheduler.                         *)
(*                                                                         *)
(* Text is a sequence of strings whose concatenation is the Python string: *)
(* user supplied text is one string per character, the fixed labels and    *)
(* markup the handlers write are one string each.  The empty Python string *)
(* is the empty sequence, and += is \o.                                    *)
(***************************************************************************)
EXTENDS Integers, Sequences, FiniteSets, TLC

\* Bounds of the model.
MaxCalls == 2       \* handle_submission calls in one run
MaxEvents == 3      \* stream events one task consumes
MaxCycles == 3      \* ctrl+t presses in one run
MaxToggles == 2     \* ctrl+l presses in one run

----------------------------------------------------------------------------
\* Text helpers

Last(s) == s[Len(s)]

RECURSIVE Flatten(_)
\* "".join(parts)
Flatten(parts) ==
    IF parts = <<>> THEN <<>> ELSE Head(parts) \o Flatten(Tail(parts))

RECURSIVE Count(_, _)
\* text.count(tok) for a one-string token
Count(text, tok) ==
    IF text = <<>> THEN 0
    ELSE (IF Head(text) = tok THEN 1 ELSE 0) + Count(Tail(text), tok)

Whitespace == {" ", "\n"}

RECURSIVE LStrip(_)
LStrip(text) ==
    IF text # <<>> /\ Head(text) \in Whitespace THEN LStrip(Tail(text)) ELSE text

RECURSIVE RStrip(_)
RStrip(text) ==
    IF text # <<>> /\ Last(text) \in Whitespace
    THEN RStrip(SubSeq(text, 1, Len(text) - 1))
    ELSE text

\* str.strip()
Strip(text) == RStrip(LStrip(text))

RECURSIVE ReplaceFrom(_, _, _, _)
ReplaceFrom(text, old, new, i) ==
    IF i > Len(text) THEN <<>>
    ELSE IF i + Len(old) - 1 <= Len(text) /\ SubSeq(text, i, i + Len(old) - 1) = old
         THEN new \o ReplaceFrom(text, old, new, i + Len(old))
         ELSE <<text[i]>> \o ReplaceFrom(text, old, new, i + 1)

\* str.replace(old, new): every non-overlapping occurrence, left to right
Replace(text, old, new) == ReplaceFrom(text, old, new, 1)

----------------------------------------------------------------------------
\* The escaper

BS == "\\"

\* the backquote character, which a TLA+ string cannot hold
Tick == "<backquote>"

\* the characters that can open a tag for rich.markup.escape: [a-z#/@]
TagStart == {"a", "b", "c", "e", "h", "i", "l", "m", "o", "p", "r", "s", "t",
             "#", "/", "@"}

RECURSIVE BackslashRun(_, _)
\* how many backslashes start at position i
BackslashRun(text, i) ==
    IF i <= Len(text) /\ text[i] = BS THEN 1 + BackslashRun(text, i + 1) ELSE 0

RECURSIVE TagEnd(_, _)
\* [^[]*?] from position j: the place of the closing bracket, 0 when a "["
\* or the end of the text comes first
TagEnd(text, j) ==
    IF j > Len(text) \/ text[j] = "[" THEN 0
    ELSE IF text[j] = "]" THEN j
    ELSE TagEnd(text, j + 1)

RECURSIVE RichSub(_, _)
\* re.sub of (\\*)(\[[a-z#/@][^[]*?]) by \1\1\\\2, scanning from position i
RichSub(text, i) ==
    IF i > Len(text) THEN <<>>
    ELSE LET k == BackslashRun(text, i)
             q == i + k
             j == IF q + 1 <= Len(text) /\ text[q] = "[" /\ text[q + 1] \in TagStart
                  THEN TagEnd(text, q + 2)
                  ELSE 0
         IN  IF j # 0
             THEN SubSeq(text, i, q - 1) \o SubSeq(text, i, q - 1) \o <<BS>>
                  \o SubSeq(text, q, j) \o RichSub(text, j + 1)
             ELSE <<text[i]>> \o RichSub(text, i + 1)

\* rich.markup.escape
RichEscape(text) ==
    LET subbed == RichSub(text, 1)
        n == Len(subbed)
    IN  IF n >= 1 /\ subbed[n] = BS /\ ~(n >= 2 /\ subbed[n - 1] = BS)
        THEN subbed \o <<BS>>
        ELSE subbed

aggresive_escape(text) ==
    LET r1 == Replace(text, <<"[">>, <<BS, "[">>)
        r2 == Replace(r1, <<"]">>, <<BS, "]">>)
        r3 == Replace(r2, <<BS, "[">>, <<BS, BS, "[">>)
        r4 == Replace(r3, <<BS, "]">>, <<BS, BS, "]">>)
        r5 == Replace(r4, <<"{">>, <<BS, "{">>)
        r6 == Replace(r5, <<"}">>, <<BS, "}">>)
        r7 == Replace(r6, <<"|">>, <<BS, "|">>)
        r8 == Replace(r7, <<"\"">>, <<BS, "\"">>)
        r9 == Replace(r8, <<"'">>, <<BS, "'">>)
    IN  RichEscape(r9)

----------------------------------------------------------------------------
\* Messages (sik_llms)

system_message(content) == [role |-> "system", content |-> content]
user_message(content) == [role |-> "user", content |-> content]
assistant_message(content) == [role |-> "assistant", content |-> content]

DEFAULT_MESSAGES ==
    << system_message(<<"You are a CLI conda assistant. Give helpful and detailed but concise replies. Prefer conda over pip when possible.">>) >>

----------------------------------------------------------------------------
\* What the collaborators can deliver

ClearCommand == <<"c", "l", "e", "a", "r">>

\* what the input widget can hold
Lines == { <<>>, <<"\n">>, ClearCommand \o <<"\n">>, <<"[", "b", "]">> }

TextChunkEvent(content) == [type |-> "TextChunkEvent", content |-> content]
ThinkingEvent(content, iteration) ==
    [type |-> "ThinkingEvent", content |-> content, iteration |-> iteration]
ToolPredictionEvent(name, arguments) ==
    [type |-> "ToolPredictionEvent", name |-> name, arguments |-> arguments]
ToolResultEvent(name, res) ==
    [type |-> "ToolResultEvent", name |-> name, result |-> res]
ErrorEvent(content) == [type |-> "ErrorEvent", content |-> content]
TextResponse == [type |-> "TextResponse"]
OtherEvent == [type |-> "O"]

\* the event sequences client.stream can yield: chunks, then the closing
\* TextResponse summary
ChatStreams ==
    { << TextChunkEvent(<<"a">>), TextChunkEvent(<<"[">>), TextResponse,
         TextChunkEvent(<<"a">>) >> }

\* the event sequences agent.stream can yield
AgentStreams ==
    { << ToolPredictionEvent(<<"l", "s">>, << <<"p", 1>> >>),
         ToolResultEvent(<<"l", "s">>, <<"[", "r", "]">>),
         TextChunkEvent(<<"a">>), TextResponse >>,
      << TextChunkEvent(<<"a">>), ThinkingEvent(<<"t">>, 1), TextChunkEvent(<<"[">>),
         TextResponse >>,
      << ErrorEvent(<<"[", "e", "]">>), TextResponse, TextChunkEvent(<<"[">>),
         TextChunkEvent(<<"a">>) >>,
      << ThinkingEvent(<<>>, 0), OtherEvent, TextChunkEvent(<<"a">>) >> }

\* the events a stream can yield next, having yielded arrived; a stream can
\* also end or raise at any point
NextEvents(streams, arrived) ==
    { s[Len(arrived) + 1] :
        s \in { t \in streams : /\ Len(t) > Len(arrived)
                                /\ SubSeq(t, 1, Len(arrived)) = arrived } }

\* str(e) of the exceptions the collaborators raise
Faults == { <<"[", "x", "]">> }

\* subprocess.CompletedProcess
ShellResults ==
    { [raised |-> FALSE, stdout |-> <<"h", "i", "\n">>, stderr |-> <<>>, returncode |-> 0],
      [raised |-> FALSE, stdout |-> <<>>, stderr |-> <<"[", "e", "]">>, returncode |-> 127],
      [raised |-> FALSE, stdout |-> <<"o">>, stderr |-> <<"w">>, returncode |-> 1] }

\* subprocess.run returns or raises
ShellOutcomes == ShellResults \cup { [raised |-> TRUE, exc |-> e] : e \in Faults }

None == [raised |-> FALSE, none |-> TRUE]

RECURSIVE JsonMembers(_)
JsonMembers(arguments) ==
    IF arguments = <<>> THEN <<>>
    ELSE <<" ", " ", "\"", Head(arguments)[1], "\"", ":", " ", ToString(Head(arguments)[2])>>
         \o (IF Len(arguments) > 1 THEN <<",", "\n">> ELSE <<>>)
         \o JsonMembers(Tail(arguments))

\* json.dumps(arguments, indent=2) of a dict given as its (key, number) items
json_dumps(arguments) ==
    IF arguments = <<>> THEN <<"{", "}">>
    ELSE <<"{", "\n">> \o JsonMembers(arguments) \o <<"\n", "}">>

\* str(event) of a pydantic event: its fields, not its content alone
EventStr(event) == <<"content=", "'">> \o event.content \o <<"'">>

\* str(type(event))
TypeStr(event) == <<"<", "c", "l", "a", "s", "s", " ", "'">> \o <<event.type>> \o <<"'", ">">>

----------------------------------------------------------------------------
\* State

VARIABLES
    mode,            \* self.mode
    multiline_mode,  \* self.multiline_mode
    output_content,  \* self.output_content: the transcript
    messages,        \* self.messages: the history
    status,          \* text of the #status widget
    output,          \* text of the #output widget
    input,           \* text of the #input widget
    error_log,       \* contents of error.log
    tasks,           \* the streaming tasks on the event loop, by the call that made them
    result,          \* what subprocess.run did in the latest handle_submission
    calls,           \* handle_submission calls so far
    cycles,          \* ctrl+t presses so far
    toggles          \* ctrl+l presses so far

vars == <<mode, multiline_mode, output_content, messages, status, output, input,
          error_log, tasks, result, calls, cycles, toggles>>

Slots == 1..MaxCalls

NoTask ==
    [kind |-> "none", pc |-> "idle", text |-> <<>>, response |-> <<>>,
     message_content |-> <<>>, current_iteration |-> 0, arrived |-> <<>>, exc |-> <<>>]

\* asyncio.create_task(coro): the task is scheduled, nothing of it has run
create_task(kind, text) ==
    [tasks EXCEPT ![calls + 1] =
        [NoTask EXCEPT !.kind = kind, !.text = text,
                       !.pc = IF kind = "agent" THEN "connect" ELSE "stream"]]

StatusText(m, ml) ==
    <<"MODE: ",
      IF m = "terminal" THEN "terminal" ELSE IF m = "agent" THEN "agent" ELSE "chat",
      " | ENTER: ",
      IF ml THEN "new-line" ELSE "submit">>

Init ==
    /\ mode = "chat"
    /\ multiline_mode = FALSE
    /\ output_content = <<>>
    /\ messages = DEFAULT_MESSAGES
    /\ status = <<"MODE: ", "chat", " | ENTER: ", "submit">>
    /\ output = <<>>
    /\ input = <<>>
    /\ error_log = <<>>
    /\ tasks = [i \in Slots |-> NoTask]
    /\ result = None
    /\ calls = 0
    /\ cycles = 0
    /\ toggles = 0

----------------------------------------------------------------------------
\* Keys

\* a cycle that never reaches the agent mode
NextModeSkipsAgent(m) == IF m = "chat" THEN "terminal" ELSE "chat"

\* the mode after ctrl+t
NextMode(m) ==
    IF m = "chat" THEN "terminal"
    ELSE IF m = "terminal" THEN "agent"
    ELSE "chat"

\* the submit behaviour after ctrl+l
ToggleMultiline(ml) == ~ml

\* a refresh that renders the state as it was before the key press
update_status_stale == status' = StatusText(mode, multiline_mode)

\* update_status: the status text follows self.mode and self.multiline_mode
update_status == status' = StatusText(mode', multiline_mode')

\* on_key("ctrl+t")
CycleMode ==
    /\ calls < MaxCalls
    /\ cycles < MaxCycles
    /\ cycles' = cycles + 1
    /\ mode' = NextMode(mode)
    /\ UNCHANGED multiline_mode
    /\ update_status
    /\ UNCHANGED <<output_content, messages, output, input, error_log, tasks, result,
                   calls, toggles>>

\* on_key("ctrl+l")
ToggleSubmit ==
    /\ calls < MaxCalls
    /\ toggles < MaxToggles
    /\ toggles' = toggles + 1
    /\ multiline_mode' = ToggleMultiline(multiline_mode)
    /\ UNCHANGED mode
    /\ update_status
    /\ UNCHANGED <<output_content, messages, output, input, error_log, tasks, result,
                   calls, cycles>>

\* the user edits the pending input
TypeText ==
    /\ calls < MaxCalls
    /\ \E line \in Lines \ {input} : input' = line
    /\ UNCHANGED <<mode, multiline_mode, output_content, messages, status, output,
                   error_log, tasks, result, calls, cycles,
                   toggles>>

----------------------------------------------------------------------------
\* handle_submission

\* "\n" before a new block unless the transcript is empty
Separator(content) == IF content # <<>> THEN <<"\n">> ELSE <<>>

\* a reset that forgets the history
ClearBranchKeepsMessages ==
    /\ output' = <<>>
    /\ output_content' = <<>>
    /\ result' = None
    /\ UNCHANGED <<messages, error_log, tasks>>

\* a reset that leaves no history at all
ClearBranchEmptiesMessages ==
    /\ output' = <<>>
    /\ output_content' = <<>>
    /\ messages' = <<>>
    /\ result' = None
    /\ UNCHANGED <<error_log, tasks>>

\* a reset that cancels the streaming tasks
ClearBranchCancelsTasks ==
    /\ output' = <<>>
    /\ output_content' = <<>>
    /\ messages' = DEFAULT_MESSAGES
    /\ result' = None
    /\ tasks' = [i \in Slots |-> NoTask]
    /\ UNCHANGED error_log

\* text.strip() == "clear"
ClearBranch ==
    /\ output' = <<>>
    /\ output_content' = <<>>
    /\ messages' = DEFAULT_MESSAGES
    /\ result' = None
    /\ UNCHANGED <<error_log, tasks>>

\* a chat branch that restarts the history at each question
ChatBranchRestartsHistory(text) ==
    /\ messages' = <<messages[1], user_message(text)>>
    /\ output_content' = output_content \o Separator(output_content)
                         \o <<"[blue]USER:[/blue]\n">> \o aggresive_escape(text)
                         \o <<"\n\n[green]ASSISTANT:[/green]\n">>
    /\ output' = output_content'
    /\ tasks' = create_task("chat", text)
    /\ result' = None
    /\ UNCHANGED error_log

\* self.mode == "chat"
ChatBranch(text) ==
    /\ messages' = Append(messages, user_message(text))
    /\ output_content' = output_content \o Separator(output_content)
                         \o <<"[blue]USER:[/blue]\n">> \o aggresive_escape(text)
                         \o <<"\n\n[green]ASSISTANT:[/green]\n">>
    /\ output' = output_content'
    /\ tasks' = create_task("chat", text)
    /\ result' = None
    /\ UNCHANGED error_log

\* self.mode == "agent"
AgentBranch(text) ==
    /\ output_content' = output_content \o Separator(output_content)
                         \o <<"[blue]USER:[/blue]\n">> \o aggresive_escape(text)
                         \o <<"\n\n[green]AGENT:[/green]\n">>
    /\ output' = output_content'
    /\ tasks' = create_task("agent", text)
    /\ result' = None
    /\ UNCHANGED <<messages, error_log>>

\* standard error preferred to standard output
OutputTextPrefersStderr(res) == IF res.stderr # <<>> THEN res.stderr ELSE res.stdout

\* the output shown of a finished subprocess
OutputText(res) == IF res.stdout # <<>> THEN res.stdout ELSE res.stderr

\* the try block of the terminal branch, subprocess.run having returned res
ShellReturned(text, res) ==
    LET content == <<"$ ">> \o text \o <<"\n[monospace]">>
                   \o aggresive_escape(OutputText(res)) \o <<"[/monospace]">>
    IN  /\ output_content' = output_content \o Separator(output_content) \o content
        /\ messages' = Append(messages, user_message(<<"[PREVIOUS COMMAND]\n\n">> \o content))
        /\ output' = output_content'
        /\ UNCHANGED error_log

\* an except block that also records the failure in the history
ShellRaisedRecorded(e) ==
    /\ error_log' = error_log \o <<"Error 2: ">> \o e \o <<"\n">>
    /\ output_content' = output_content \o Separator(output_content) \o <<"Error: ">> \o e
    /\ output' = output_content'
    /\ messages' = Append(messages, assistant_message(<<"Error: ">> \o e))

\* the except block of the terminal branch, subprocess.run having raised e
ShellRaised(e) ==
    /\ error_log' = error_log \o <<"Error 2: ">> \o e \o <<"\n">>
    /\ output_content' = output_content \o Separator(output_content) \o <<"Error: ">> \o e
    /\ output' = output_content'
    /\ UNCHANGED messages

\* self.mode == "terminal": subprocess.run blocks until the command is over
TerminalBranch(text) ==
    \E outcome \in ShellOutcomes :
        /\ result' = outcome
        /\ IF outcome.raised THEN ShellRaised(outcome.exc) ELSE ShellReturned(text, outcome)
        /\ UNCHANGED tasks

\* a dispatcher without the blank-line check
handle_submission_dispatches_blank(text) ==
    /\ input' = <<>>
    /\ IF Strip(text) = ClearCommand THEN ClearBranch
       ELSE IF mode = "chat" THEN ChatBranch(text)
       ELSE IF mode = "agent" THEN AgentBranch(text)
       ELSE TerminalBranch(text)

\* a dispatcher that takes the agent mode for the chat mode
handle_submission_agent_as_chat(text) ==
    IF Strip(text) = <<>>
    THEN /\ result' = None
         /\ UNCHANGED <<output_content, messages, output, input, error_log, tasks>>
    ELSE /\ input' = <<>>
         /\ IF Strip(text) = ClearCommand THEN ClearBranch
            ELSE IF mode \in {"chat", "agent"} THEN ChatBranch(text)
            ELSE TerminalBranch(text)

handle_submission(text) ==
    IF Strip(text) = <<>>
    THEN /\ result' = None
         /\ UNCHANGED <<output_content, messages, output, input, error_log, tasks>>
    ELSE /\ input' = <<>>
         /\ IF Strip(text) = ClearCommand THEN ClearBranch
            ELSE IF mode = "chat" THEN ChatBranch(text)
            ELSE IF mode = "agent" THEN AgentBranch(text)
            ELSE TerminalBranch(text)

\* CustomTextArea._on_key("enter")
EnterKey ==
    /\ UNCHANGED <<mode, multiline_mode, status, cycles, toggles>>
    /\ calls < MaxCalls
    /\ IF multiline_mode
       THEN /\ input \o <<"\n">> \in Lines
            /\ input' = input \o <<"\n">>
            /\ UNCHANGED <<output_content, messages, output, error_log, tasks, result, calls, cycles,
                   toggles>>
       ELSE /\ calls' = calls + 1
            /\ handle_submission(input)

----------------------------------------------------------------------------
\* stream_response: the chat task

\* a response that accumulates what was rendered instead of what arrived
ResponseEscaped(response, event) == response \o aggresive_escape(event.content)

\* a response that puts the latest chunk first
ResponsePrepended(response, event) == event.content \o response

\* response += event.content
ResponseAfter(response, event) == response \o event.content

\* one iteration of the async for: an event has arrived
ChatEvent(i) ==
    /\ tasks[i].kind = "chat"
    /\ tasks[i].pc = "stream"
    /\ Len(tasks[i].arrived) < MaxEvents
    /\ \E event \in NextEvents(ChatStreams, tasks[i].arrived) :
          IF event.type = "TextChunkEvent"
          THEN /\ output_content' = output_content \o aggresive_escape(event.content)
               /\ output' = output_content'
               /\ tasks' = [tasks EXCEPT ![i].response = ResponseAfter(@, event),
                                         ![i].arrived = Append(@, event)]
          ELSE /\ tasks' = [tasks EXCEPT ![i].arrived = Append(@, event)]
               /\ UNCHANGED <<output_content, output>>
    /\ UNCHANGED <<mode, multiline_mode, messages, status, input, error_log, result, calls, cycles,
                   toggles>>

\* the stream is exhausted: the code after the loop runs and the task is over
ChatEnd(i) ==
    /\ tasks[i].kind = "chat"
    /\ tasks[i].pc = "stream"
    /\ output_content' = output_content \o <<"\n">>
    /\ messages' = Append(messages, assistant_message(tasks[i].response))
    /\ tasks' = [tasks EXCEPT ![i] = NoTask]
    /\ UNCHANGED <<mode, multiline_mode, status, output, input, error_log, result, calls, cycles,
                   toggles>>

\* client.stream raises: stream_response has no handler, the task ends with
\* the exception
ChatRaise(i) ==
    /\ tasks[i].kind = "chat"
    /\ tasks[i].pc = "stream"
    /\ \E e \in Faults : tasks' = [tasks EXCEPT ![i].pc = "raised", ![i].exc = e]
    /\ UNCHANGED <<mode, multiline_mode, output_content, messages, status, output, input,
                   error_log, result, calls, cycles,
                   toggles>>

\* nothing holds the chat task and it has no done callback: the event loop
\* drops it, its exception never retrieved
ChatDropped(i) ==
    /\ tasks[i].kind = "chat"
    /\ tasks[i].pc = "raised"
    /\ tasks' = [tasks EXCEPT ![i] = NoTask]
    /\ UNCHANGED <<mode, multiline_mode, output_content, messages, status, output, input,
                   error_log, result, calls, cycles,
                   toggles>>

----------------------------------------------------------------------------
\* stream_agent_response: the agent task

\* an isinstance chain with no branch for the in-band error
KnownEventsWithoutError ==
    {"ThinkingEvent", "ToolPredictionEvent", "ToolResultEvent", "TextChunkEvent",
     "TextResponse"}

\* an isinstance chain that lets any other variant through
KnownEventsAndOthers ==
    {"ThinkingEvent", "ToolPredictionEvent", "ToolResultEvent", "ErrorEvent",
     "TextChunkEvent", "TextResponse", "O"}

KnownEvents ==
    {"ThinkingEvent", "ToolPredictionEvent", "ToolResultEvent", "ErrorEvent",
     "TextChunkEvent", "TextResponse"}

\* current_iteration after the event
IterationAfter(event, current_iteration) ==
    IF event.type = "ThinkingEvent"
    THEN (IF event.iteration # current_iteration THEN event.iteration ELSE current_iteration)
    ELSE IF event.type = "TextChunkEvent"
    THEN (IF current_iteration >= 0 THEN -1 ELSE current_iteration)
    ELSE current_iteration

\* what the event adds to self.output_content
Rendered(event, current_iteration) ==
    CASE event.type = "ThinkingEvent" ->
            IF event.content # <<>>
            THEN <<"\n[orange]|THINKING|:[/orange]\n">> \o aggresive_escape(event.content)
                 \o <<"\n">>
            ELSE <<>>
      [] event.type = "ToolPredictionEvent" ->
            <<"\n[purple]|TOOL PREDICTION|:[/purple]\n">>
            \o <<"Tool: ", Tick>> \o aggresive_escape(event.name) \o <<Tick, "\n">>
            \o <<"Parameters:\n", Tick, Tick, Tick, "json\n">> \o aggresive_escape(json_dumps(event.arguments))
            \o <<"\n", Tick, Tick, Tick, "\n">>
      [] event.type = "ToolResultEvent" ->
            <<"\n[purple]|TOOL RESULT|:[/purple]\n">>
            \o <<"Tool: ", Tick>> \o aggresive_escape(event.name) \o <<Tick, "\n">>
            \o <<"Result: ">> \o aggresive_escape(event.result) \o <<"\n">>
      [] event.type = "ErrorEvent" ->
            <<"\n[red]|ERROR|:[/red]\n">>
            \o <<"Error: ">> \o aggresive_escape(event.content) \o <<"\n">>
      [] event.type = "TextChunkEvent" ->
            (IF current_iteration >= 0 THEN <<"\n[green]|FINAL RESPONSE|:[/green]\n">>
             ELSE <<>>)
            \o aggresive_escape(event.content)
      [] OTHER -> <<>>

\* what the event adds to message_content
Recorded(event, current_iteration) ==
    CASE event.type = "ThinkingEvent" ->
            IF event.content # <<>>
            THEN <<"\n|THINKING|:\n">> \o event.content \o <<"\n">>
            ELSE <<>>
      [] event.type = "ToolPredictionEvent" ->
            <<"\n|TOOL PREDICTION|:\n">>
            \o <<"Tool: ", Tick>> \o event.name \o <<Tick, "\n">>
            \o <<"Parameters:\n", Tick, Tick, Tick, "json\n">> \o json_dumps(event.arguments) \o <<"\n", Tick, Tick, Tick, "\n">>
      [] event.type = "ToolResultEvent" ->
            <<"\n|TOOL RESULT|:\n">>
            \o <<"Tool: ", Tick>> \o event.name \o <<Tick, "\n">>
            \o <<"Result: ">> \o event.result \o <<"\n">>
      [] event.type = "ErrorEvent" ->
            <<"\n|ERROR|:\n">> \o <<"Error: ">> \o event.content \o <<"\n">>
      [] event.type = "TextChunkEvent" ->
            (IF current_iteration >= 0 THEN <<"\n|FINAL RESPONSE|:\n">> ELSE <<>>)
            \o event.content
      [] OTHER -> <<>>

\* what the event adds to error.log
Logged(event) ==
    IF event.type = "ErrorEvent" THEN <<"Error: ">> \o EventStr(event) \o <<"\n">> ELSE <<>>

\* the except block of stream_agent_response; the coroutine then returns
AgentExcept(i, e, seen) ==
    /\ error_log' = error_log \o <<"Error 3: ">> \o e \o <<"\n">>
    /\ output_content' = output_content \o <<"\n\n[red]ERROR: ">> \o aggresive_escape(e)
                         \o <<"[/red]\n">>
    /\ output' = output_content'
    /\ messages' = Append(messages, assistant_message(<<"Error: ">> \o e))
    /\ tasks' = [tasks EXCEPT ![i].pc = "caught", ![i].arrived = seen]

\* await mcp_manager.connect_servers() and get_tools(), before the try block
AgentConnect(i) ==
    /\ tasks[i].kind = "agent"
    /\ tasks[i].pc = "connect"
    /\ \/ tasks' = [tasks EXCEPT ![i].pc = "stream", ![i].current_iteration = 0,
                                 ![i].message_content = <<>>]
       \/ \E e \in Faults : tasks' = [tasks EXCEPT ![i].pc = "raised", ![i].exc = e]
    /\ UNCHANGED <<mode, multiline_mode, output_content, messages, status, output, input,
                   error_log, result, calls, cycles,
                   toggles>>

\* an iteration that gives way to the other tasks after the first fragment
\* of the event's block
AgentEventYieldsInBlock(i) ==
    /\ tasks[i].kind = "agent"
    /\ tasks[i].pc = "stream"
    /\ Len(tasks[i].arrived) < MaxEvents
    /\ \E event \in NextEvents(AgentStreams, tasks[i].arrived) :
          LET block == Rendered(event, tasks[i].current_iteration)
          IN  /\ error_log' = error_log \o Logged(event)
              /\ output_content' = output_content
                                   \o (IF block = <<>> THEN <<>> ELSE <<Head(block)>>)
              /\ output' = output_content'
              /\ tasks' = [tasks EXCEPT ![i].arrived = Append(@, event)]
              /\ UNCHANGED messages
    /\ UNCHANGED <<mode, multiline_mode, status, input, result, calls, cycles,
                   toggles>>

\* one iteration of the async for: an event has arrived
AgentEvent(i) ==
    /\ tasks[i].kind = "agent"
    /\ tasks[i].pc = "stream"
    /\ Len(tasks[i].arrived) < MaxEvents
    /\ \E event \in NextEvents(AgentStreams, tasks[i].arrived) :
          IF event.type \in KnownEvents
          THEN /\ error_log' = error_log \o Logged(event)
               /\ output_content' = output_content
                                    \o Rendered(event, tasks[i].current_iteration)
               /\ output' = output_content'
               /\ tasks' = [tasks EXCEPT
                              ![i].message_content =
                                  @ \o Recorded(event, tasks[i].current_iteration),
                              ![i].current_iteration = IterationAfter(event, @),
                              ![i].arrived = Append(@, event)]
               /\ UNCHANGED messages
          ELSE AgentExcept(i, <<"Unknown event type: ">> \o TypeStr(event),
                           Append(tasks[i].arrived, event))
    /\ UNCHANGED <<mode, multiline_mode, status, input, result, calls, cycles,
                   toggles>>

\* the stream is exhausted: the code after the loop runs and the coroutine returns
AgentEnd(i) ==
    /\ tasks[i].kind = "agent"
    /\ tasks[i].pc = "stream"
    /\ output_content' = output_content \o <<"\n">>
    /\ messages' = Append(messages, assistant_message(tasks[i].message_content))
    /\ tasks' = [tasks EXCEPT ![i].pc = "finished"]
    /\ UNCHANGED <<mode, multiline_mode, status, output, input, error_log, result, calls, cycles,
                   toggles>>

\* agent.stream raises inside the try block
AgentRaise(i) ==
    /\ tasks[i].kind = "agent"
    /\ tasks[i].pc = "stream"
    /\ \E e \in Faults : AgentExcept(i, e, tasks[i].arrived)
    /\ UNCHANGED <<mode, multiline_mode, status, input, result, calls, cycles,
                   toggles>>

\* a callback that takes a fault the handler has caught for one of the task
ResultRaisesAlsoCaught(task) == task.pc \in {"raised", "caught"}

\* task.result() raises: the coroutine ended with an exception
ResultRaises(task) == task.pc = "raised"

\* the done callback of the agent task; the task is then over
handle_task_exception(i) ==
    /\ tasks[i].kind = "agent"
    /\ tasks[i].pc \in {"finished", "caught", "raised"}
    /\ IF ResultRaises(tasks[i])
       THEN LET e == tasks[i].exc
            IN  /\ error_log' = error_log \o <<"Error 1: ">> \o e \o <<"\n">>
                /\ output_content' = output_content \o <<"\n\n[red]ERROR: ">>
                                     \o aggresive_escape(e) \o <<"[/red]\n">>
                /\ output' = output_content'
                /\ messages' = Append(messages, assistant_message(<<"Error: ">> \o e))
       ELSE UNCHANGED <<error_log, output_content, output, messages>>
    /\ tasks' = [tasks EXCEPT ![i] = NoTask]
    /\ UNCHANGED <<mode, multiline_mode, status, input, result, calls, cycles,
                   toggles>>

----------------------------------------------------------------------------

Next ==
    \/ CycleMode
    \/ ToggleSubmit
    \/ TypeText
    \/ EnterKey
    \/ \E i \in Slots : ChatEvent(i)
    \/ \E i \in Slots : ChatEnd(i)
    \/ \E i \in Slots : ChatRaise(i)
    \/ \E i \in Slots : ChatDropped(i)
    \/ \E i \in Slots : AgentConnect(i)
    \/ \E i \in Slots : AgentEvent(i)
    \/ \E i \in Slots : AgentEnd(i)
    \/ \E i \in Slots : AgentRaise(i)
    \/ \E i \in Slots : handle_task_exception(i)

Spec == Init /\ [][Next]_vars

----------------------------------------------------------------------------
\* Properties

\* this step is one call of handle_submission
Submitted == calls' = calls + 1

IsBlank(text) == \A k \in 1..Len(text) : text[k] \in Whitespace

\* C1: submitting a line whose trimmed text is "clear" leaves, in whatever
\* state it is submitted, an empty transcript and the history [system
\* preamble], and starts no chat, agent or shell handler.
ClearResets ==
    [][(Submitted /\ Strip(input) = ClearCommand)
         => /\ output_content' = <<>>
            /\ messages' = DEFAULT_MESSAGES
            /\ tasks' = tasks
            /\ result' = None
            /\ error_log' = error_log]_vars

\* a reset made while a streaming task that has rendered events is running
ClearedInFlight ==
    /\ calls = 2
    /\ output_content = <<>>
    /\ messages = DEFAULT_MESSAGES
    /\ input = <<>>
    /\ \E i \in Slots : tasks[i].pc = "stream" /\ tasks[i].arrived # <<>>

\* C2: submitting an empty or whitespace-only line changes neither the
\* transcript nor the history, starts no task and runs no command, and leaves
\* the mode and the submit behaviour alone.
BlankIgnored ==
    [][(Submitted /\ IsBlank(input))
         => /\ UNCHANGED <<output_content, messages, tasks, error_log, output,
                           mode, multiline_mode, status>>
            /\ result' = None]_vars

\* the last call of the run was a whitespace-only line in terminal mode:
\* nothing can retype the input after it, and any other call clears it
BlankSubmitted ==
    /\ calls = MaxCalls
    /\ input = <<"\n">>
    /\ mode = "terminal"
    /\ output_content # <<>>

\* C3: the mode is chat exactly after a multiple of three ctrl+t presses,
\* terminal one press later and agent two presses later; the submit behaviour
\* is back at submit exactly after an even number of ctrl+l presses.
ModeCycle ==
    /\ (cycles % 3 = 0) <=> (mode = "chat")
    /\ (cycles % 3 = 1) <=> (mode = "terminal")
    /\ (cycles % 3 = 2) <=> (mode = "agent")
    /\ (toggles % 2 = 0) <=> (multiline_mode = FALSE)

\* three ctrl+t presses and two ctrl+l presses have been made
CycledBack ==
    /\ cycles = 3
    /\ toggles = 2
    /\ mode = "chat"
    /\ multiline_mode = FALSE

RECURSIVE ChunkText(_)
\* the contents of the text chunks among the events, concatenated in order
ChunkText(events) ==
    IF events = <<>> THEN <<>>
    ELSE (IF Head(events).type = "TextChunkEvent" THEN Head(events).content ELSE <<>>)
         \o ChunkText(Tail(events))

Has(events, type) == \E k \in 1..Len(events) : events[k].type = type

\* C4: in a fresh session, one chat submission and nothing else: the user
\* message is appended when the line is submitted, nothing more is appended
\* while chunks arrive, and when the stream ends the history is [system,
\* user(line), assistant(the chunks, unescaped, in arrival order)].
ChatRoundTrip ==
    [][/\ (Submitted /\ calls = 0 /\ mode = "chat" /\ ~IsBlank(input)
             /\ Strip(input) # ClearCommand)
          => messages' = <<DEFAULT_MESSAGES[1], user_message(input)>>
       /\ \A i \in Slots :
            (calls = 1 /\ tasks[i].kind = "chat" /\ tasks[i].pc = "stream")
              => /\ messages = <<DEFAULT_MESSAGES[1], user_message(tasks[i].text)>>
                 /\ (tasks'[i] = NoTask)
                      => messages' = <<DEFAULT_MESSAGES[1], user_message(tasks[i].text),
                                       assistant_message(ChunkText(tasks[i].arrived))>>]_vars

\* the one chat submission of the session has been answered by two chunks
ChatAnswered ==
    /\ calls = 1
    /\ tasks[1] = NoTask
    /\ messages = <<DEFAULT_MESSAGES[1], user_message(<<"[", "b", "]">>),
                    assistant_message(<<"a", "[">>)>>

\* the marks that open an entry of error.log
LogMarks == {"Error: ", "Error 1: ", "Error 2: ", "Error 3: "}

\* entries of error.log
LogEntries(log) == Cardinality({ k \in 1..Len(log) : log[k] \in LogMarks })

\* the red blocks of the failure paths in a transcript
RedBlocks(content) == Count(content, "\n\n[red]ERROR: ")

\* the assistant messages that summarize a failure
ErrorMessages(history) ==
    Cardinality({ k \in 1..Len(history) :
                    /\ history[k].role = "assistant"
                    /\ history[k].content # <<>>
                    /\ Head(history[k].content) = "Error: " })

\* C5 as claimed: a chat stream that raises is recorded: by the time the
\* failed task of the session's only submission is gone, error.log has an
\* entry, the transcript an error block, and the user message is followed by
\* an assistant message.
ChatFaultRecorded ==
    [][\A i \in Slots :
         (calls = 1 /\ tasks[i].kind = "chat" /\ tasks[i].pc = "raised"
            /\ tasks'[i] = NoTask)
           => /\ LogEntries(error_log') >= 1
              /\ RedBlocks(output_content') >= 1
              /\ Len(messages') = 3
              /\ messages'[3].role = "assistant"]_vars

\* C6 as claimed: an agent task has written the FINAL RESPONSE header to
\* message_content once if a text chunk has arrived and never otherwise, and
\* so has the transcript of a session with that one submission.
FinalHeaderOnce ==
    \A i \in Slots :
        (tasks[i].kind = "agent" /\ tasks[i].pc \in {"stream", "finished", "caught"})
          => LET n == IF Has(tasks[i].arrived, "TextChunkEvent") THEN 1 ELSE 0
             IN  /\ Count(tasks[i].message_content, "\n|FINAL RESPONSE|:\n") = n
                 /\ (calls = 1)
                      => Count(output_content, "\n[green]|FINAL RESPONSE|:[/green]\n") = n

\* C7: a fault of an agent task is recorded once: the step that catches it
\* in the handler adds one entry to error.log, one red block to the transcript
\* and one assistant error message to the history, and the done callback then
\* adds nothing; a fault that escapes the handler adds nothing until the done
\* callback, which adds one of each.
FaultRecordedOnce ==
    [][\A i \in Slots :
         LET running == tasks[i].kind = "agent" /\ tasks[i].pc \in {"connect", "stream"}
             over == tasks'[i] = NoTask
             recorded == /\ LogEntries(error_log') = LogEntries(error_log) + 1
                         /\ RedBlocks(output_content') = RedBlocks(output_content) + 1
                         /\ ErrorMessages(messages') = ErrorMessages(messages) + 1
                         /\ Len(messages') = Len(messages) + 1
             silent == UNCHANGED <<error_log, output_content, messages>>
         IN  /\ (running /\ tasks'[i].pc = "caught") => recorded
             /\ (running /\ tasks'[i].pc = "raised") => silent
             /\ (tasks[i].pc = "caught" /\ over) => silent
             /\ (tasks[i].kind = "agent" /\ tasks[i].pc = "raised" /\ over) => recorded]_vars

\* two agent submissions, one failed while connecting and one while streaming,
\* are over and the session holds one record of each
BothFaultsRecorded ==
    /\ \A i \in Slots : tasks[i] = NoTask
    /\ Count(error_log, "Error 1: ") = 1
    /\ Count(error_log, "Error 3: ") = 1
    /\ LogEntries(error_log) = 2
    /\ RedBlocks(output_content) = 2
    /\ ErrorMessages(messages) = 2
    /\ Len(messages) = 3

\* C8: an in-band ErrorEvent leaves the agent task streaming, adds an ERROR
\* block to the transcript and an entry to error.log; a text chunk that
\* arrives after it is still rendered and recorded, and when the stream ends
\* the history receives message_content, error text included.
ErrorEventContinues ==
    [][\A i \in Slots :
         (tasks[i].kind = "agent" /\ tasks[i].pc = "stream")
           => LET before == tasks[i].arrived
                  after == tasks'[i].arrived
                  got(type) == /\ Len(after) = Len(before) + 1
                               /\ Last(after).type = type
              IN  /\ got("ErrorEvent")
                       => /\ tasks'[i].pc = "stream"
                          /\ LogEntries(error_log') = LogEntries(error_log) + 1
                          /\ Count(output_content', "\n[red]|ERROR|:[/red]\n")
                               = Count(output_content, "\n[red]|ERROR|:[/red]\n") + 1
                          /\ RedBlocks(output_content') = RedBlocks(output_content)
                          /\ messages' = messages
                  /\ (Has(before, "ErrorEvent") /\ got("TextChunkEvent"))
                       => /\ tasks'[i].pc = "stream"
                          /\ Len(output_content') > Len(output_content)
                          /\ SubSeq(output_content', 1, Len(output_content)) = output_content
                          /\ Last(output_content') = Last(aggresive_escape(Last(after).content))
                          /\ Last(tasks'[i].message_content) = Last(Last(after).content)
                  /\ (Has(before, "ErrorEvent") /\ tasks'[i].pc = "finished")
                       => /\ messages' = Append(messages,
                                           assistant_message(tasks[i].message_content))
                          /\ Count(tasks[i].message_content, "\n|ERROR|:\n") >= 1
                          /\ ErrorMessages(messages') = ErrorMessages(messages)]_vars

\* an agent stream has ended normally after an ErrorEvent and a later chunk
ErrorThenFinished ==
    \E i \in Slots :
        /\ tasks[i].pc = "finished"
        /\ Len(tasks[i].arrived) = 3
        /\ tasks[i].arrived[1].type = "ErrorEvent"
        /\ tasks[i].arrived[3].type = "TextChunkEvent"
        /\ Last(messages) = assistant_message(tasks[i].message_content)
        /\ Count(error_log, "Error: ") = 1

\* C9: a terminal submission whose subprocess returns, whatever its exit
\* status, appends "$ <line>" and the escaped output (stdout, or stderr when
\* stdout is empty) to the transcript and one user message labelled
\* [PREVIOUS COMMAND] to the history, and nothing else.
ShellOutputRecorded ==
    [][(Submitted /\ result' \in ShellResults)
         => LET shown == IF result'.stdout # <<>> THEN result'.stdout ELSE result'.stderr
                block == <<"$ ">> \o input \o <<"\n[monospace]">>
                         \o aggresive_escape(shown) \o <<"[/monospace]">>
            IN  /\ output_content' = output_content \o Separator(output_content) \o block
                /\ messages' = Append(messages,
                                      user_message(<<"[PREVIOUS COMMAND]\n\n">> \o block))
                /\ error_log' = error_log
                /\ tasks' = tasks]_vars

\* a command that wrote to both streams and exited with status 1 has run
ShellFailedStatus ==
    /\ result \in ShellResults
    /\ result.returncode = 1
    /\ result.stdout # <<>>
    /\ result.stderr # <<>>
    /\ Len(messages) = 2
    /\ messages[2].role = "user"

\* C10: a terminal submission whose subprocess raises adds one entry to
\* error.log and one plain error line to the transcript and leaves the
\* history as it was.
ShellFaultContained ==
    [][(Submitted /\ result'.raised)
         => /\ LogEntries(error_log') = LogEntries(error_log) + 1
            /\ Count(error_log', "Error 2: ") = Count(error_log, "Error 2: ") + 1
            /\ output_content' = output_content \o Separator(output_content)
                                 \o <<"Error: ">> \o result'.exc
            /\ messages' = messages
            /\ tasks' = tasks]_vars

\* a command has raised after an earlier command had been recorded
ShellFaultAfterCommand ==
    /\ result.raised
    /\ calls = 2
    /\ Len(messages) = 2
    /\ messages[2].role = "user"
    /\ Count(error_log, "Error 2: ") = 1

\* C11: the history is never empty and its first message is the system
\* preamble, whatever submissions, resets, key presses and task steps have
\* been interleaved.
HistoryHead ==
    /\ messages # <<>>
    /\ messages[1] = system_message(DEFAULT_MESSAGES[1].content)
    /\ messages[1].role = "system"

\* the mode was changed and a reset made under a running agent task, which
\* has since failed into the history
HeadAfterResetAndFault ==
    /\ calls = MaxCalls
    /\ cycles = 3
    /\ mode = "chat"
    /\ RedBlocks(output_content) = 1
    /\ Head(output_content) = "\n\n[red]ERROR: "
    /\ Len(messages) = 2
    /\ ErrorMessages(messages) = 1
    /\ \A i \in Slots : tasks[i] = NoTask

\* C12 as claimed: with a streaming task in flight, the step of the handler
\* that runs the subprocess only starts it: the command's output or failure
\* reaches the transcript, the history and error.log in a later step, and the
\* task's events can be applied in between.
ShellYields ==
    [][(/\ Submitted
        /\ result' # None
        /\ \E i \in Slots : tasks[i].pc \in {"connect", "stream"})
         => UNCHANGED <<output_content, messages, error_log>>]_vars

RECURSIVE ContentOf(_, _)
\* what a run of agent events, taken in order, adds to message_content
ContentOf(events, current_iteration) ==
    IF events = <<>> THEN <<>>
    ELSE Recorded(Head(events), current_iteration)
         \o ContentOf(Tail(events), IterationAfter(Head(events), current_iteration))

EndsWith(s, t) == Len(s) >= Len(t) /\ SubSeq(s, Len(s) - Len(t) + 1, Len(s)) = t

\* C13: a streaming task applies its events in arrival order and drops none:
\* each step of the task takes the one event that arrived next and appends
\* that event's rendering to the end of the transcript, and the assistant
\* message the task appends when its stream ends is its events' contents
\* concatenated in arrival order.
InArrivalOrder ==
    [][\A i \in Slots :
         LET task == tasks[i]
             streaming == task.pc = "stream" /\ tasks'[i].pc = "stream"
                          /\ tasks'[i] # task
             event == Last(tasks'[i].arrived)
         IN  /\ streaming
                  => /\ tasks'[i].arrived = Append(task.arrived, event)
                     /\ IF task.kind = "chat"
                        THEN /\ output_content' = output_content
                                  \o (IF event.type = "TextChunkEvent"
                                      THEN aggresive_escape(event.content) ELSE <<>>)
                             /\ tasks'[i].response = ChunkText(tasks'[i].arrived)
                        ELSE /\ output_content' = output_content
                                  \o Rendered(event, task.current_iteration)
                             /\ tasks'[i].message_content = ContentOf(tasks'[i].arrived, 0)
                     /\ messages' = messages
             /\ (task.kind = "chat" /\ task.pc = "stream" /\ tasks'[i] = NoTask)
                  => messages' = Append(messages,
                                        assistant_message(ChunkText(task.arrived)))
             /\ (task.kind = "agent" /\ task.pc = "stream" /\ tasks'[i].pc = "finished")
                  => /\ messages' = Append(messages,
                                           assistant_message(ContentOf(task.arrived, 0)))
                     /\ tasks'[i].arrived = task.arrived]_vars

\* a chat task and an agent task have run interleaved: the agent's three
\* events were followed by the chat's second chunk, then the agent's stream
\* ended
InterleavedStreams ==
    /\ tasks[1].kind = "chat"
    /\ tasks[1].pc = "stream"
    /\ tasks[1].response = <<"a", "[">>
    /\ tasks[2].pc = "finished"
    /\ Len(tasks[2].arrived) = 3
    /\ tasks[2].arrived[1].type = "ToolPredictionEvent"
    /\ Last(messages) = assistant_message(tasks[2].message_content)
    /\ EndsWith(output_content, aggresive_escape(<<"[">>) \o <<"\n">>)

\* C14: an agent event of no known variant ends the stream at once through
\* the failure path: that step adds one "Error 3" entry, one red block and one
\* assistant error message naming the variant, message_content is not
\* appended, and the task afterwards takes no further event and adds nothing
\* more.
UnknownEventFailsFast ==
    [][\A i \in Slots :
         LET task == tasks[i]
             text == <<"Unknown event type: ">> \o TypeStr(OtherEvent)
         IN  /\ (/\ task.kind = "agent" /\ task.pc = "stream"
                 /\ tasks'[i].arrived = Append(task.arrived, OtherEvent))
                  => /\ tasks'[i].pc = "caught"
                     /\ tasks'[i].message_content = task.message_content
                     /\ error_log' = error_log \o <<"Error 3: ">> \o text \o <<"\n">>
                     /\ output_content' = output_content \o <<"\n\n[red]ERROR: ">>
                                          \o aggresive_escape(text) \o <<"[/red]\n">>
                     /\ messages' = Append(messages,
                                           assistant_message(<<"Error: ">> \o text))
             /\ (task.pc = "caught" /\ tasks'[i] # task)
                  => /\ tasks'[i] = NoTask
                     /\ UNCHANGED <<output_content, messages, error_log>>]_vars

\* a stream was cut short by an unknown event after a known one, and the task
\* is over: the history ends with the error message
UnknownEventRecorded ==
    /\ calls = 1
    /\ tasks[1] = NoTask
    /\ Len(messages) = 2
    /\ messages[2] = assistant_message(<<"Error: ", "Unknown event type: ">>
                                        \o TypeStr(OtherEvent))
    /\ Count(error_log, "Error 3: ") = 1
    /\ RedBlocks(output_content) = 1

\* C15: a reset neither stops nor waits for a streaming task: the reset step
\* leaves every task as it was, and a task that streams over a transcript
\* emptied by a reset still appends its events to the transcript and, when
\* its stream ends, its assistant message to the history.
ResetKeepsTasks ==
    [][/\ (Submitted /\ Strip(input) = ClearCommand) => tasks' = tasks
       /\ \A i \in Slots :
            LET task == tasks[i]
                reset == task.pc = "stream" /\ output_content = <<>>
                         /\ messages = DEFAULT_MESSAGES
            IN  /\ (reset /\ tasks'[i].pc = "stream" /\ tasks'[i] # task)
                     => output_content'
                          = IF task.kind = "chat"
                            THEN aggresive_escape(ChunkText(<<Last(tasks'[i].arrived)>>))
                            ELSE Rendered(Last(tasks'[i].arrived), task.current_iteration)
                /\ (reset /\ tasks'[i].pc \in {"idle", "finished"})
                     => /\ output_content' = <<"\n">>
                        /\ Len(messages') = 2
                        /\ messages'[2].role = "assistant"
                        /\ messages'[2].content
                             = IF task.kind = "chat" THEN task.response
                               ELSE task.message_content]_vars

\* a chat stream outlived the reset that followed its submission: the
\* transcript holds its chunks and the history its answer with no question
AnswerWithoutQuestion ==
    /\ calls = 2
    /\ \A i \in Slots : tasks[i] = NoTask
    /\ output_content = aggresive_escape(<<"a", "[">>) \o <<"\n">>
    /\ messages = <<DEFAULT_MESSAGES[1], assistant_message(<<"a", "[">>)>>

IsPrefix(s, t) == Len(s) <= Len(t) /\ SubSeq(t, 1, Len(s)) = s

\* C16: every step that is not the submission of a reset keeps the transcript
\* and the history as prefixes of what they become: submissions, task steps,
\* failure paths and key presses only append.
AppendOnly ==
    [][~(Submitted /\ Strip(input) = ClearCommand)
         => /\ IsPrefix(output_content, output_content')
            /\ IsPrefix(messages, messages')]_vars

\* a chat question was answered and a shell command then recorded after it,
\* with both keys pressed on the way
GrownHistory ==
    /\ calls = 2
    /\ mode = "terminal"
    /\ toggles = 2
    /\ Len(messages) = 4
    /\ messages[3].role = "assistant"
    /\ messages[4].role = "user"
    /\ Len(output_content) > Len(messages[4].content)

\* C17: a line that is neither blank nor a reset empties the pending input
\* and goes to the one handler of the mode it was submitted in: a chat or an
\* agent submission makes exactly one task of that kind, holding the line,
\* and runs no command; a terminal submission runs one command and makes no
\* task. A mode change makes no task and runs nothing, and a task in flight
\* keeps its kind and its line and renders its events by its kind, whatever
\* the mode has become.
OneHandlerPerLine ==
    [][/\ (Submitted /\ ~IsBlank(input) /\ Strip(input) # ClearCommand)
          => /\ input' = <<>>
             /\ mode \in {"chat", "agent"}
                  => /\ \A i \in Slots :
                          IF i = calls'
                          THEN /\ tasks[i] = NoTask
                               /\ tasks'[i].kind = mode
                               /\ tasks'[i].text = input
                               /\ tasks'[i].arrived = <<>>
                          ELSE tasks'[i] = tasks[i]
                     /\ result' = None
             /\ mode = "terminal"
                  => /\ tasks' = tasks
                     /\ result' \in ShellOutcomes
       /\ (mode' # mode)
          => UNCHANGED <<tasks, result, output_content, messages, input, calls>>
       /\ \A i \in Slots :
            (tasks[i] # NoTask /\ tasks'[i] # NoTask)
              => /\ tasks'[i].kind = tasks[i].kind
                 /\ tasks'[i].text = tasks[i].text
                 /\ (tasks'[i].arrived # tasks[i].arrived /\ tasks'[i].pc = "stream")
                      => output_content'
                           = output_content
                             \o (IF tasks[i].kind = "chat"
                                 THEN aggresive_escape(ChunkText(<<Last(tasks'[i].arrived)>>))
                                 ELSE Rendered(Last(tasks'[i].arrived),
                                               tasks[i].current_iteration))]_vars

\* a line submitted in chat mode is streaming while the mode is agent, the
\* input is empty and no other handler has run
ChatStreamsInAgentMode ==
    /\ calls = 1
    /\ mode = "agent"
    /\ input = <<>>
    /\ result = None
    /\ tasks[1].kind = "chat"
    /\ tasks[1].response = <<"a", "[">>
    /\ tasks[2] = NoTask
    /\ Count(output_content, "\n\n[green]ASSISTANT:[/green]\n") = 1
    /\ Count(output_content, "\n[green]|FINAL RESPONSE|:[/green]\n") = 0

\* C18: in every state the status text is the rendering of the current mode
\* and submit behaviour: it is so initially, and a ctrl+t or ctrl+l press
\* changes the state and the text in one step.
StatusMatches ==
    status = <<"MODE: ", mode, " | ENTER: ",
               IF multiline_mode THEN "new-line" ELSE "submit">>

\* both keys have been pressed under a streaming task: agent mode, enter
\* inserts a new line
StatusAgentNewLine ==
    /\ mode = "agent"
    /\ multiline_mode
    /\ status = <<"MODE: ", "agent", " | ENTER: ", "new-line">>
    /\ \E i \in Slots : tasks[i].pc = "stream" /\ tasks[i].arrived # <<>>

\* C19 as claimed: whatever a submission appends to the transcript holds the
\* submitted line, the subprocess output and the exception text only in
\* escaped form, between the labels and tags of the handler: in chat and
\* agent mode after the USER label, in terminal mode after "$ " and after
\* "Error: ".
ExternalTextEscaped ==
    [][(Submitted /\ ~IsBlank(input) /\ Strip(input) # ClearCommand)
         => LET added ==
                    IF mode = "chat"
                    THEN <<"[blue]USER:[/blue]\n">> \o aggresive_escape(input)
                         \o <<"\n\n[green]ASSISTANT:[/green]\n">>
                    ELSE IF mode = "agent"
                    THEN <<"[blue]USER:[/blue]\n">> \o aggresive_escape(input)
                         \o <<"\n\n[green]AGENT:[/green]\n">>
                    ELSE IF result'.raised
                    THEN <<"Error: ">> \o aggresive_escape(result'.exc)
                    ELSE <<"$ ">> \o aggresive_escape(input) \o <<"\n[monospace]">>
                         \o aggresive_escape(IF result'.stdout # <<>> THEN result'.stdout
                                             ELSE result'.stderr)
                         \o <<"[/monospace]">>
            IN  output_content' = output_content \o Separator(output_content) \o added]_vars

\* the tag lines that open the block of an agent event
EventTags ==
    {"\n[orange]|THINKING|:[/orange]\n", "\n[purple]|TOOL PREDICTION|:[/purple]\n",
     "\n[purple]|TOOL RESULT|:[/purple]\n", "\n[red]|ERROR|:[/red]\n",
     "\n[green]|FINAL RESPONSE|:[/green]\n"}

\* the events an agent stream can deliver
StreamEvents == UNION { { s[k] : k \in 1..Len(s) } : s \in AgentStreams }

\* the blocks those events render to, with the header and without
EventBlocks ==
    { Rendered(event, current_iteration) :
        event \in StreamEvents, current_iteration \in {-1, 0} } \ {<<>>}

\* the transcript holds, from position k on, the whole block of some event
BlockAt(content, k) ==
    \E block \in EventBlocks :
        /\ Head(block) = content[k]
        /\ Len(content) >= k + Len(block) - 1
        /\ SubSeq(content, k, k + Len(block) - 1) = block

\* C20: the fragments of one agent event are contiguous in the transcript:
\* wherever the tag line of an event stands, the rest of that event's block
\* follows it directly, whatever other tasks and submissions have appended
\* before and after.
BlocksContiguous ==
    \A k \in 1..Len(output_content) :
        output_content[k] \in EventTags => BlockAt(output_content, k)

\* two agent tasks have streamed interleaved: the ERROR block of one stands
\* between the TOOL PREDICTION block and the TOOL RESULT block of the other
BlocksInterleaved ==
    LET At(tag) == { k \in 1..Len(output_content) : output_content[k] = tag }
    IN  \E p \in At("\n[purple]|TOOL PREDICTION|:[/purple]\n"),
           e \in At("\n[red]|ERROR|:[/red]\n"),
           r \in At("\n[purple]|TOOL RESULT|:[/purple]\n") : p < e /\ e < r

====
